---- MODULE Spec2Model ----
(***************************************************************************)
(* KVM dirty ring (virt/kvm/dirty_ring.c).  Ring-based implementation:     *)
(* kvm_dirty_ring_alloc / kvm_dirty_ring_push(ring, slot, offset) /        *)
(* kvm_dirty_ring_reset(kvm, ring) and the capacity queries.  Per-vcpu     *)
(* implementation: kvm_dirty_ring_push(vcpu, slot, offset) /               *)
(* kvm_dirty_ring_reset(vcpu), here kvm_dirty_ring_push_vcpu and           *)
(* kvm_dirty_ring_reset_vcpu, on the same struct kvm_dirty_ring.           *)
(*                                                                         *)
(* Widths.  TLC's integers are 32-bit, so the code's u32 counters are      *)
(* modelled as IndexBits-bit unsigned integers and its u64 offsets as      *)
(* OffsetBits-bit unsigned integers, with the same wrap-around arithmetic  *)
(* (% 2^w); int is IntBits bits and u16 is U16Bits bits, keeping the order *)
(* of the widths (u16 < u32, BITS_PER_LONG < 2^(IntBits-1), int < u64).    *)
(* The unsigned long mask keeps its BITS_PER_LONG = 64 bits: it  *)
(* is the set of its set bit positions, a subset of 0..63.                 *)
(***************************************************************************)
EXTENDS Integers, Sequences, FiniteSets

VARIABLES
    dirty_index,   \* ring->dirty_index (u32)
    reset_index,   \* ring->reset_index (u32)
    size,          \* ring->size
    soft_limit,    \* ring->soft_limit
    dirty_gfns,    \* ring->dirty_gfns[0 .. size-1], each [slot, offset]
    fetch_index,   \* ring->indices->fetch_index, written by userspace
    avail_index,   \* ring->indices->avail_index, written by push
    op,            \* the operation that ran last: "alloc", "push", "reset" or "fetch"
    arg,           \* its arguments
    ret,           \* its return value
    calls,         \* the kvm_reset_dirty_gfn calls it made, in order
    walk,          \* the loop state of the last reset, before each iteration and after the last
    warned,        \* WARN_ON_ONCE(kvm_dirty_ring_full(ring)) fired in the last push
    run,           \* successful pushes since the ring was last empty, Lost once a reset left it
                   \* non-empty or more than size were pushed
    ahead,         \* dirty_index - reset_index of the free-running counts (entries pushed less
                   \* entries consumed), Lost once outside 0 .. IndexMod - 1
    kept,          \* successful resets since fetch_index was last written, at most 2
    npush,         \* pushes made so far (bounds SpecCoalesce only)
    fifo,          \* the entries pushed and not yet consumed, oldest first (q), and the number
                   \* of successful pushes modulo size (k); ok until more than size entries
                   \* were unconsumed or a reset consumed more than was pushed
    reads,         \* the entries the last reset read, in the order it read them
    over,          \* pushes the owning vcpu made on a soft-full ring since a reset last left
                   \* the ring below soft_limit (SpecProtocol only)
    impl,          \* the implementation in use: "ring" (ring-based) or "vcpu" (per-vcpu)
    ring1,         \* vcpu 1's struct kvm_dirty_ring and its avail_index (SpecThreads only)
    locks,         \* the holder of each lock, Free when none (SpecThreads only)
    pc,            \* the statement each thread is at (SpecThreads only)
    loc,           \* the locals of each thread (SpecThreads only)
    probe,         \* the inputs and the result of a function applied on its own (SpecGuard,
                   \* SpecAlloc only)
    log            \* the entries pushed to vcpu 0's ring, in the order dirty_index counted
                   \* them (SpecThreads only)

ring_vars == <<dirty_index, reset_index, size, soft_limit, dirty_gfns>>
indices_vars == <<fetch_index, avail_index>>
vars == <<dirty_index, reset_index, size, soft_limit, dirty_gfns, fetch_index,
          avail_index, op, arg, ret, calls, walk, warned, run, ahead, kept, npush,
          fifo, reads, over, impl, probe, ring1, locks, pc, loc, log>>
\* the variables only the threads of SpecThreads change
thread_vars == <<ring1, locks, pc, loc, log>>
\* the record of the last whole operation, which the threads leave alone
last_op_vars == <<op, arg, ret, calls, walk, warned, run, ahead, kept, fifo, reads, over>>

----------------------------------------------------------------------------
(* Bounds of the model *)

\* width of the model's u32
IndexBits == 3
\* width of the model's u64
OffsetBits == 10
\* width of the model's int
IntBits == 8
\* width of the model's u16
U16Bits == 2
\* pushes in one run of SpecVcpu
MaxVcpuBatch == 4
\* pushes in one run of SpecThreads
MaxThreadPush == 3
MaxLaps == 2
\* pushes in one run of SpecCoalesce
MaxBatch == 3

(* Program constants *)
BITS_PER_LONG == 64
EBUSY == 16
EINVAL == 22
ENOMEM == 12
\* sizeof(struct kvm_dirty_gfn): {slot: 4 bytes, offset: 8 bytes}
GfnBytes == 12

RECURSIVE Pow2(_)
Pow2(n) == IF n = 0 THEN 1 ELSE 2 * Pow2(n - 1)

IndexMod == Pow2(IndexBits)
OffsetMod == Pow2(OffsetBits)

\* conversion to u32 / u64 (wrap-around)
U32(x) == x % IndexMod
U64(x) == x % OffsetMod
\* (s64) of a u64 value: two's complement
S64(x) == IF x >= OffsetMod \div 2 THEN x - OffsetMod ELSE x

IntMod == Pow2(IntBits)
\* conversion of a u64 value to int: the low IntBits bits, two's complement
SInt(x) == IF x % IntMod >= IntMod \div 2 THEN (x % IntMod) - IntMod ELSE x % IntMod
\* conversion to u16
U16(x) == x % Pow2(U16Bits)

\* a & b on naturals
RECURSIVE BitAnd(_, _)
BitAnd(a, b) ==
    IF a = 0 \/ b = 0 THEN 0
    ELSE (a % 2) * (b % 2) + 2 * BitAnd(a \div 2, b \div 2)

\* the set bits of an unsigned long given as a number
RECURSIVE BitsFrom(_, _)
BitsFrom(n, pos) ==
    IF n = 0 THEN {}
    ELSE (IF n % 2 = 1 THEN {pos} ELSE {}) \cup BitsFrom(n \div 2, pos + 1)
BitsOf(n) == BitsFrom(n, 0)

LongBits == 0 .. (BITS_PER_LONG - 1)
\* mask << k and mask >> k on an unsigned long, 0 <= k < BITS_PER_LONG
ShiftLeft(mask, k) == {b + k : b \in mask} \cap LongBits
ShiftRight(mask, k) == {b - k : b \in mask} \cap LongBits

\* the value of run and ahead once they no longer track the ring
Lost == 0 - 1
NoArg == [vcpu |-> FALSE, slot |-> 0, offset |-> 0]
\* the value of fifo once it no longer tracks the ring
FifoLost == [ok |-> FALSE, q |-> << >>, k |-> 0]

Gfn(slot, offset) == [slot |-> slot, offset |-> offset]

\* the threads: vcpu 0, vcpu 1, a context without a vcpu (kvmgt), the caller of reset, and
\* userspace harvesting vcpu 0's ring
Pushers == {"vcpu0", "vcpu1", "none"}
Threads == Pushers \cup {"reset", "user"}
\* the locks: kvm->slots_lock, kvm->dirty_ring_lock and each vcpu's dirty_ring.lock
Locks == {"slots_lock", "dirty_ring_lock", "lock0", "lock1"}
Free == "free"
\* the locals of a thread that is not inside a call
NoLocals == [ret |-> 0]
\* the value of probe where no function is applied on its own
NoProbe == [kind |-> "none"]

----------------------------------------------------------------------------
(* Capacity queries *)

\* faulty variant: a difference below 0 taken for an empty ring
kvm_dirty_ring_used_no_wrap ==
    IF dirty_index >= reset_index THEN dirty_index - reset_index ELSE 0
\* faulty variant: the entries consumed are not taken off
kvm_dirty_ring_used_since_alloc == dirty_index
kvm_dirty_ring_used == U32(dirty_index - reset_index + IndexMod)

\* faulty variant: soft-full only above the limit
kvm_dirty_ring_soft_full_above == kvm_dirty_ring_used > soft_limit
kvm_dirty_ring_soft_full == kvm_dirty_ring_used >= soft_limit

kvm_dirty_ring_full == kvm_dirty_ring_used >= size

----------------------------------------------------------------------------
(* Allocation *)

\* the weak default of kvm_cpu_dirty_log_size()
kvm_cpu_dirty_log_size == 0
\* reserved entries: "a small constant"
KVM_DIRTY_RING_RSVD_ENTRIES == 1
kvm_dirty_ring_get_rsvd_entries == KVM_DIRTY_RING_RSVD_ENTRIES + kvm_cpu_dirty_log_size

\* the ring sizes in bytes (kvm->dirty_ring_size) the model allocates: 2 and 4 entries
RingBytes == {2 * GfnBytes, 4 * GfnBytes}

\* the state kvm_dirty_ring_alloc(ring, indices, index, bytes) leaves, vmalloc succeeding;
\* the indices page is zeroed
kvm_dirty_ring_alloc(bytes) ==
    /\ size = bytes \div GfnBytes
    /\ dirty_gfns = [i \in 0 .. (bytes \div GfnBytes) - 1 |-> Gfn(0, 0)]
    /\ soft_limit = U32((bytes \div GfnBytes) - kvm_dirty_ring_get_rsvd_entries + IndexMod)
    /\ dirty_index = 0
    /\ reset_index = 0
    /\ fetch_index = 0
    /\ avail_index = 0

\* no thread inside a call
InitThreads(i) ==
    /\ impl = i
    /\ locks = [l \in Locks |-> Free]
    /\ pc = [t \in Threads |-> "idle"]
    /\ loc = [t \in Threads |-> IF t = "user" THEN [n |-> 0, cursor |-> 0, slot |-> 0,
                                                     seen |-> << >>]
                                 ELSE NoLocals]
    /\ log = << >>

\* nothing pushed or reset yet
InitHistory ==
    /\ op = "alloc"
    /\ arg = NoArg
    /\ ret = 0
    /\ calls = << >>
    /\ walk = << >>
    /\ warned = FALSE
    /\ run = 0
    /\ ahead = 0
    /\ kept = 0
    /\ npush = 0
    /\ fifo = [ok |-> TRUE, q |-> << >>, k |-> 0]
    /\ reads = << >>
    /\ over = 0

\* the state after kvm_dirty_ring_alloc of both vcpus' rings, no thread inside a call
InitState(i) ==
    /\ InitThreads(i)
    /\ \E bytes \in RingBytes : kvm_dirty_ring_alloc(bytes)
    /\ ring1 = [dirty_index |-> 0, reset_index |-> 0, size |-> size,
                soft_limit |-> soft_limit, dirty_gfns |-> dirty_gfns, avail_index |-> 0]
    /\ InitHistory

InitImpl(i) == InitState(i) /\ probe = NoProbe

Init == InitImpl("ring")

----------------------------------------------------------------------------
(* Push *)

\* faulty variant: the entry addressed after dirty_index was advanced
PushEntry_after_increment == BitAnd(U32(dirty_index + 1), size - 1)
\* entry = &ring->dirty_gfns[ring->dirty_index & (ring->size - 1)]
PushEntry == BitAnd(dirty_index, size - 1)

\* faulty variant: the position within the ring published
PushAvail_wrapped == BitAnd(U32(dirty_index + 1), size - 1)
\* WRITE_ONCE(indices->avail_index, ring->dirty_index), after ring->dirty_index++
PushAvail == U32(dirty_index + 1)

\* kvm_dirty_ring_push(ring, slot, offset); vcpu: kvm_get_running_vcpu() != NULL
kvm_dirty_ring_push(vcpu, slot, offset) ==
    /\ op' = "push"
    /\ arg' = [vcpu |-> vcpu, slot |-> slot, offset |-> offset]
    /\ calls' = << >>
    /\ walk' = << >>
    /\ reads' = << >>
    /\ UNCHANGED <<reset_index, size, soft_limit, fetch_index, kept>>
    /\ IF ~vcpu /\ kvm_dirty_ring_soft_full
       THEN /\ ret' = -EBUSY
            /\ warned' = FALSE
            /\ UNCHANGED <<dirty_index, dirty_gfns, avail_index, run, ahead, fifo>>
       ELSE /\ warned' = kvm_dirty_ring_full
            /\ dirty_gfns' = [dirty_gfns EXCEPT ![PushEntry] = Gfn(slot, offset)]
            /\ dirty_index' = U32(dirty_index + 1)
            /\ avail_index' = PushAvail
            /\ run' = IF run # Lost /\ run < size THEN run + 1 ELSE Lost
            /\ ahead' = IF ahead # Lost /\ ahead + 1 < IndexMod THEN ahead + 1 ELSE Lost
            /\ fifo' = IF fifo.ok /\ Len(fifo.q) < size
                       THEN [ok |-> TRUE, q |-> Append(fifo.q, Gfn(slot, offset)),
                             k |-> (fifo.k + 1) % size]
                       ELSE FifoLost
            /\ ret' = 0

----------------------------------------------------------------------------
(* Reset *)

\* kvm_reset_dirty_gfn(kvm, slot, offset, mask): the call, as recorded
kvm_reset_dirty_gfn(slot, offset, mask) ==
    [slot |-> slot, offset |-> offset, mask |-> mask]

\* the locals of kvm_dirty_ring_reset before its loop
ResetLocals ==
    [first_round |-> TRUE, cur_slot |-> 0, cur_offset |-> 0, mask |-> {},
     flushed |-> << >>]

\* the tail of the loop body: flush the batch, seed a new one with the entry
ResetFlush(st, entry) ==
    [first_round |-> FALSE,
     cur_slot |-> entry.slot,
     cur_offset |-> entry.offset,
     mask |-> {0},
     flushed |-> Append(st.flushed,
                        kvm_reset_dirty_gfn(st.cur_slot, st.cur_offset, st.mask))]

\* s64 delta = next_offset - cur_offset
ResetDelta(next_offset, cur_offset) == S64(U64(next_offset - cur_offset + OffsetMod))

\* faulty variant: the backward merge forgets to move the base
ResetMergeBack_keep_base(st, entry, delta) ==
    [st EXCEPT !.mask = ShiftLeft(@, -delta) \cup {0}]
\* cur_offset = next_offset; mask = (mask << -delta) | 1
ResetMergeBack(st, entry, delta) ==
    [st EXCEPT !.cur_offset = entry.offset,
               !.mask = ShiftLeft(@, -delta) \cup {0}]

\* faulty variant: the guard shifts one position too far
ResetBackGuard_one_off(mask, delta) ==
    ShiftRight(ShiftLeft(mask, -delta - 1), -delta - 1) = mask
\* (mask << -delta >> -delta) == mask
ResetBackGuard(mask, delta) == ShiftRight(ShiftLeft(mask, -delta), -delta) = mask

\* one iteration of the loop, after the entry was read and reset_index advanced
ResetIter(st, entry) ==
    IF ~st.first_round /\ entry.slot = st.cur_slot
    THEN LET delta == ResetDelta(entry.offset, st.cur_offset) IN
         IF delta >= 0 /\ delta < BITS_PER_LONG
         THEN [st EXCEPT !.mask = @ \cup {delta}]
         ELSE IF /\ delta > -BITS_PER_LONG
                 /\ delta < 0
                 /\ ResetBackGuard(st.mask, delta)
              THEN ResetMergeBack(st, entry, delta)
              ELSE ResetFlush(st, entry)
    ELSE ResetFlush(st, entry)

\* faulty variant: the entry addressed after reset_index was advanced
ResetEntry_after_increment(ri) == dirty_gfns[BitAnd(U32(ri + 1), size - 1)]
\* entry = &ring->dirty_gfns[ring->reset_index & (ring->size - 1)]
ResetEntry(ri) == dirty_gfns[BitAnd(ri, size - 1)]

\* the entries the loop reads, in order
RECURSIVE ResetReads(_, _)
ResetReads(ri, fetch) ==
    IF ri = fetch THEN << >> ELSE <<ResetEntry(ri)>> \o ResetReads(U32(ri + 1), fetch)

\* while (ring->reset_index != fetch): the locals before each iteration, and after the last
\* (the locals and the entry of an iteration are bound to their values before the next)
RECURSIVE ResetLoop(_, _, _)
ResetLoop(ri, fetch, trail) ==
    IF ri = fetch
    THEN trail
    ELSE CHOOSE out \in {ResetLoop(U32(ri + 1), fetch, Append(trail, ResetIter(st, entry))) :
                             st \in {trail[Len(trail)]}, entry \in {ResetEntry(ri)}} : TRUE

\* faulty variant: the distance compared as a signed integer
ResetRangeInvalid_signed(fetch) ==
    LET d == U32(fetch - reset_index + IndexMod)
    IN (IF d >= IndexMod \div 2 THEN d - IndexMod ELSE d) > size
\* if (fetch - ring->reset_index > ring->size) return -EINVAL
ResetRangeInvalid(fetch) == U32(fetch - reset_index + IndexMod) > size

\* faulty variant: no early return
ResetNothingFetched_never(fetch) == FALSE
\* if (fetch == ring->reset_index) return 0
ResetNothingFetched(fetch) == fetch = reset_index

\* faulty variant: count incremented only where a batch is flushed
ResetCount_flushes(trail) == Len(trail[Len(trail)].flushed)
\* count: incremented once per entry read
ResetCount(trail) == Len(trail) - 1

\* kvm_dirty_ring_reset(kvm, ring)
kvm_dirty_ring_reset ==
    /\ op' = "reset"
    /\ arg' = NoArg
    /\ warned' = FALSE
    /\ UNCHANGED <<dirty_index, size, soft_limit, dirty_gfns, fetch_index, avail_index>>
    /\ IF ResetRangeInvalid(fetch_index)
       THEN /\ ret' = -EINVAL
            /\ calls' = << >>
            /\ walk' = << >>
            /\ reads' = << >>
            /\ UNCHANGED <<reset_index, run, ahead, kept, fifo>>
       ELSE IF ResetNothingFetched(fetch_index)
       THEN /\ ret' = 0
            /\ calls' = << >>
            /\ walk' = << >>
            /\ reads' = << >>
            /\ kept' = IF kept < 2 THEN kept + 1 ELSE 2
            /\ UNCHANGED <<reset_index, run, ahead, fifo>>
       ELSE LET trail == ResetLoop(reset_index, fetch_index, <<ResetLocals>>)
                st == trail[Len(trail)]
                n == Len(trail) - 1
            IN /\ reset_index' = U32(reset_index + n)
               /\ ret' = ResetCount(trail)
               /\ calls' = Append(st.flushed,
                                  kvm_reset_dirty_gfn(st.cur_slot, st.cur_offset, st.mask))
               /\ walk' = trail
               /\ kept' = IF kept < 2 THEN kept + 1 ELSE 2
               /\ run' = IF fetch_index = dirty_index THEN 0
                         ELSE IF n = 0 THEN run ELSE Lost
               /\ ahead' = IF ahead # Lost /\ n <= ahead THEN ahead - n ELSE Lost
               /\ reads' = ResetReads(reset_index, fetch_index)
               /\ fifo' = IF fifo.ok /\ n <= Len(fifo.q)
                          THEN [fifo EXCEPT !.q = SubSeq(@, n + 1, Len(@))]
                          ELSE FifoLost

\* userspace stores v into indices->fetch_index
WriteFetch(v) ==
    /\ fetch_index' = v
    /\ op' = "fetch"
    /\ arg' = NoArg
    /\ ret' = 0
    /\ calls' = << >>
    /\ walk' = << >>
    /\ warned' = FALSE
    /\ kept' = 0
    /\ reads' = << >>
    /\ UNCHANGED <<dirty_index, reset_index, size, soft_limit, dirty_gfns, avail_index,
                   run, ahead, fifo>>

----------------------------------------------------------------------------
(* Per-vcpu implementation *)

\* kvm_dirty_ring_push(vcpu, slot, offset), under dirty_ring->lock
kvm_dirty_ring_push_vcpu(slot, offset) ==
    /\ op' = "push"
    /\ arg' = [vcpu |-> TRUE, slot |-> slot, offset |-> offset]
    /\ calls' = << >>
    /\ walk' = << >>
    /\ reads' = << >>
    /\ UNCHANGED <<reset_index, size, soft_limit, fetch_index, kept>>
    /\ LET num == U16(U32(dirty_index - reset_index + IndexMod)) IN
       IF num >= size
       THEN /\ ret' = -EBUSY
            /\ warned' = (num > size)
            /\ UNCHANGED <<dirty_index, dirty_gfns, avail_index, run, ahead, fifo>>
       ELSE /\ warned' = FALSE
            /\ dirty_gfns' = [dirty_gfns EXCEPT
                                ![BitAnd(dirty_index, size - 1)] = Gfn(slot, offset)]
            /\ dirty_index' = U32(dirty_index + 1)
            /\ avail_index' = U32(dirty_index + 1) % size
            /\ ret' = IF U16(U32(dirty_index + 1 - reset_index + IndexMod)) >= soft_limit
                      THEN 1 ELSE 0
            /\ run' = IF run # Lost /\ run < size THEN run + 1 ELSE Lost
            /\ ahead' = IF ahead # Lost /\ ahead + 1 < IndexMod THEN ahead + 1 ELSE Lost
            /\ fifo' = IF fifo.ok /\ Len(fifo.q) < size
                       THEN [ok |-> TRUE, q |-> Append(fifo.q, Gfn(slot, offset)),
                             k |-> (fifo.k + 1) % size]
                       ELSE FifoLost

\* kvm_dirty_ring_reset_index(ring), of a reset_index ri
kvm_dirty_ring_reset_index(ri) == BitAnd(ri, size - 1)

\* the locals after the first entry was read, before the loop
VcpuResetSeed(entry) ==
    [cur_slot |-> entry.slot, cur_offset |-> entry.offset, mask |-> {0}, flushed |-> << >>]

\* the tail of the loop body: flush the batch, seed a new one with the entry
VcpuResetFlush(st, entry) ==
    [cur_slot |-> entry.slot,
     cur_offset |-> entry.offset,
     mask |-> {0},
     flushed |-> Append(st.flushed,
                        kvm_reset_dirty_gfn(st.cur_slot, st.cur_offset, st.mask))]

\* int delta = next_offset - cur_offset
VcpuResetDelta(next_offset, cur_offset) == SInt(U64(next_offset - cur_offset + OffsetMod))

\* one iteration of the loop, after the entry was read and reset_index advanced
VcpuResetIter(st, entry) ==
    IF entry.slot = st.cur_slot
    THEN LET delta == VcpuResetDelta(entry.offset, st.cur_offset) IN
         IF delta >= 0 /\ delta < BITS_PER_LONG
         THEN [st EXCEPT !.mask = @ \cup {delta}]
         ELSE IF /\ delta > -BITS_PER_LONG
                 /\ delta < 0
                 /\ ShiftRight(ShiftLeft(st.mask, -delta), -delta) = st.mask
              THEN [st EXCEPT !.cur_offset = entry.offset,
                              !.mask = ShiftLeft(@, -delta) \cup {0}]
              ELSE VcpuResetFlush(st, entry)
    ELSE VcpuResetFlush(st, entry)

\* while (kvm_dirty_ring_reset_index(ring) != fetch): the locals before each iteration, and
\* after the last
RECURSIVE VcpuResetLoop(_, _, _)
VcpuResetLoop(ri, fetch, trail) ==
    IF kvm_dirty_ring_reset_index(ri) = fetch
    THEN trail
    ELSE VcpuResetLoop(U32(ri + 1), fetch,
                       Append(trail,
                              VcpuResetIter(trail[Len(trail)],
                                            dirty_gfns[kvm_dirty_ring_reset_index(ri)])))

\* the entries the loop reads, in order
RECURSIVE VcpuResetReads(_, _)
VcpuResetReads(ri, fetch) ==
    IF kvm_dirty_ring_reset_index(ri) = fetch
    THEN << >>
    ELSE <<dirty_gfns[kvm_dirty_ring_reset_index(ri)]>> \o VcpuResetReads(U32(ri + 1), fetch)

\* fetch = READ_ONCE(run->dirty_ring_indexes.fetch_index); fetch &= (ring->size - 1)
VcpuResetFetch == BitAnd(fetch_index, size - 1)

\* kvm_dirty_ring_reset(vcpu)
kvm_dirty_ring_reset_vcpu ==
    /\ op' = "reset"
    /\ arg' = NoArg
    /\ warned' = FALSE
    /\ kept' = IF kept < 2 THEN kept + 1 ELSE 2
    /\ UNCHANGED <<dirty_index, size, soft_limit, dirty_gfns, fetch_index, avail_index>>
    /\ IF VcpuResetFetch = kvm_dirty_ring_reset_index(reset_index)
       THEN /\ ret' = 0
            /\ calls' = << >>
            /\ walk' = << >>
            /\ reads' = << >>
            /\ UNCHANGED <<reset_index, run, ahead, fifo>>
       ELSE LET first == dirty_gfns[kvm_dirty_ring_reset_index(reset_index)]
                trail == VcpuResetLoop(U32(reset_index + 1), VcpuResetFetch,
                                       <<VcpuResetSeed(first)>>)
                st == trail[Len(trail)]
                n == Len(trail)
            IN /\ reset_index' = U32(reset_index + n)
               /\ ret' = n
               /\ calls' = Append(st.flushed,
                                  kvm_reset_dirty_gfn(st.cur_slot, st.cur_offset, st.mask))
               /\ walk' = trail
               /\ reads' = <<first>> \o VcpuResetReads(U32(reset_index + 1), VcpuResetFetch)
               /\ run' = IF U32(reset_index + n) = dirty_index THEN 0 ELSE Lost
               /\ ahead' = IF ahead # Lost /\ n <= ahead THEN ahead - n ELSE Lost
               /\ fifo' = IF fifo.ok /\ n <= Len(fifo.q)
                          THEN [fifo EXCEPT !.q = SubSeq(@, n + 1, Len(@))]
                          ELSE FifoLost

----------------------------------------------------------------------------
(* The operations statement by statement, run by concurrent threads.  Each step is one    *)
(* statement in program order: smp_wmb() in push keeps the stores before it ahead of the  *)
(* stores after it for every observer.                                                    *)

\* vcpu 0's ring and its indices page as one record, like ring1
Ring0 ==
    [dirty_index |-> dirty_index, reset_index |-> reset_index, size |-> size,
     soft_limit |-> soft_limit, dirty_gfns |-> dirty_gfns, avail_index |-> avail_index]
RingOf(r) == IF r = 0 THEN Ring0 ELSE ring1
SetRing(r, new) ==
    IF r = 0
    THEN /\ dirty_index' = new.dirty_index
         /\ reset_index' = new.reset_index
         /\ dirty_gfns' = new.dirty_gfns
         /\ avail_index' = new.avail_index
         /\ UNCHANGED <<size, soft_limit, ring1>>
    ELSE /\ ring1' = new
         /\ UNCHANGED <<ring_vars, avail_index>>
KeepRings == UNCHANGED <<ring_vars, avail_index, ring1>>
\* kvm_dirty_ring_used(ring) of a ring record
RingUsed(R) == U32(R.dirty_index - R.reset_index + IndexMod)

Goto(t, label) == pc' = [pc EXCEPT ![t] = label]
\* the statement after label in a sequence of statements, last after its end
Following(order, label, last) ==
    LET i == CHOOSE k \in 1 .. Len(order) : order[k] = label
    IN IF i < Len(order) THEN order[i + 1] ELSE last

\* kvm_get_running_vcpu() in thread t: the index of its vcpu, NoVcpu for NULL
NoVcpu == 0 - 1
kvm_get_running_vcpu(t) == IF t = "vcpu0" THEN 0 ELSE IF t = "vcpu1" THEN 1 ELSE NoVcpu
\* if (!vcpu) vcpu = kvm->vcpus[0]
DefaultedVcpu(t) == IF kvm_get_running_vcpu(t) = NoVcpu THEN 0 ELSE kvm_get_running_vcpu(t)

\* faulty variant: the lock taken only by contexts without a vcpu
GetTakesLock_without_vcpu(t) == kvm_get_running_vcpu(t) = NoVcpu
\* if (vcpu == kvm->vcpus[0]) spin_lock(&kvm->dirty_ring_lock)
GetTakesLock(t) == DefaultedVcpu(t) = 0

\* the lock a push of thread t runs under, Free for none: kvm->dirty_ring_lock taken by
\* kvm_dirty_ring_get, or the ring's own lock taken by the per-vcpu push
PushLock(t) ==
    IF impl = "ring"
    THEN IF GetTakesLock(t) THEN "dirty_ring_lock" ELSE Free
    ELSE IF DefaultedVcpu(t) = 0 THEN "lock0" ELSE "lock1"

\* faulty variant: the indexes are advanced and published before the entry is written
PushOrder_publish_first ==
    <<"inc_load", "inc_store", "publish", "store_slot", "store_offset">>
\* entry->slot = slot; entry->offset = offset; smp_wmb(); ring->dirty_index++;
\* WRITE_ONCE(avail_index, ...)
PushOrder == <<"store_slot", "store_offset", "inc_load", "inc_store", "publish">>

\* faulty variant: a refused push tries again by itself
BusyPc_retry == "check"
\* return -EBUSY, to the caller's kvm_dirty_ring_put; ret = -EBUSY; goto out
BusyPc == "put"

\* a thread calls kvm_dirty_ring_get and kvm_dirty_ring_push(ring, slot, 0), or
\* kvm_dirty_ring_push(vcpu, slot, 0)
PushCall(t, slot) ==
    /\ pc[t] = "idle"
    /\ npush < MaxThreadPush
    /\ loc' = [loc EXCEPT ![t] = [slot |-> slot, offset |-> 0, e |-> 0, d |-> 0, ret |-> 0]]
    /\ Goto(t, "get")
    /\ npush' = npush + 1
    /\ KeepRings
    /\ UNCHANGED <<fetch_index, last_op_vars, impl, probe, locks, log>>

\* kvm_dirty_ring_get(kvm), or spin_lock(&dirty_ring->lock) of the per-vcpu push
PushGet(t) ==
    /\ pc[t] = "get"
    /\ PushLock(t) # Free => locks[PushLock(t)] = Free
    /\ locks' = IF PushLock(t) # Free THEN [locks EXCEPT ![PushLock(t)] = t] ELSE locks
    /\ Goto(t, "check")
    /\ KeepRings
    /\ UNCHANGED <<fetch_index, last_op_vars, npush, impl, probe, loc, log>>

\* the capacity check of push and the address of the entry
PushCheck(t) ==
    /\ pc[t] = "check"
    /\ LET R == RingOf(DefaultedVcpu(t))
           busy == IF impl = "ring"
                   THEN kvm_get_running_vcpu(t) = NoVcpu /\ RingUsed(R) >= R.soft_limit
                   ELSE U16(RingUsed(R)) >= R.size
       IN IF busy
          THEN /\ loc' = [loc EXCEPT ![t].ret = -EBUSY]
               /\ Goto(t, BusyPc)
          ELSE /\ loc' = [loc EXCEPT ![t].e = BitAnd(R.dirty_index, R.size - 1)]
               /\ Goto(t, PushOrder[1])
    /\ KeepRings
    /\ UNCHANGED <<fetch_index, last_op_vars, npush, impl, probe, locks, log>>

\* entry->slot = slot
PushStoreSlot(t) ==
    /\ pc[t] = "store_slot"
    /\ LET r == DefaultedVcpu(t) IN
          SetRing(r, [RingOf(r) EXCEPT !.dirty_gfns[loc[t].e].slot = loc[t].slot])
    /\ Goto(t, Following(PushOrder, "store_slot", "put"))
    /\ UNCHANGED <<fetch_index, last_op_vars, npush, impl, probe, locks, loc, log>>

\* entry->offset = offset
PushStoreOffset(t) ==
    /\ pc[t] = "store_offset"
    /\ LET r == DefaultedVcpu(t) IN
          SetRing(r, [RingOf(r) EXCEPT !.dirty_gfns[loc[t].e].offset = loc[t].offset])
    /\ Goto(t, Following(PushOrder, "store_offset", "put"))
    /\ UNCHANGED <<fetch_index, last_op_vars, npush, impl, probe, locks, loc, log>>

\* ring->dirty_index++: the load
PushIncLoad(t) ==
    /\ pc[t] = "inc_load"
    /\ loc' = [loc EXCEPT ![t].d = RingOf(DefaultedVcpu(t)).dirty_index]
    /\ Goto(t, Following(PushOrder, "inc_load", "put"))
    /\ KeepRings
    /\ UNCHANGED <<fetch_index, last_op_vars, npush, impl, probe, locks, log>>

\* ring->dirty_index++: the store
PushIncStore(t) ==
    /\ pc[t] = "inc_store"
    /\ LET r == DefaultedVcpu(t) IN
          /\ SetRing(r, [RingOf(r) EXCEPT !.dirty_index = U32(loc[t].d + 1)])
          /\ log' = IF r = 0 THEN Append(log, Gfn(loc[t].slot, loc[t].offset)) ELSE log
    /\ Goto(t, Following(PushOrder, "inc_store", "put"))
    /\ UNCHANGED <<fetch_index, last_op_vars, npush, impl, probe, locks, loc>>

\* WRITE_ONCE(indices->avail_index, ring->dirty_index), or
\* WRITE_ONCE(avail_index, dirty_index % size); ret = num >= soft_limit
PushPublish(t) ==
    /\ pc[t] = "publish"
    /\ LET r == DefaultedVcpu(t)
           R == RingOf(r)
       IN IF impl = "ring"
          THEN /\ SetRing(r, [R EXCEPT !.avail_index = R.dirty_index])
               /\ loc' = [loc EXCEPT ![t].ret = 0]
          ELSE /\ SetRing(r, [R EXCEPT !.avail_index = R.dirty_index % R.size])
               /\ loc' = [loc EXCEPT ![t].ret = IF U16(RingUsed(R)) >= R.soft_limit
                                                 THEN 1 ELSE 0]
    /\ Goto(t, Following(PushOrder, "publish", "put"))
    /\ UNCHANGED <<fetch_index, last_op_vars, npush, impl, probe, locks, log>>

\* kvm_dirty_ring_put(kvm, ring), or spin_unlock(&dirty_ring->lock), and the return
PushPut(t) ==
    /\ pc[t] = "put"
    /\ locks' = IF PushLock(t) # Free THEN [locks EXCEPT ![PushLock(t)] = Free] ELSE locks
    /\ loc' = [loc EXCEPT ![t] = [ret |-> loc[t].ret]]
    /\ Goto(t, "idle")
    /\ KeepRings
    /\ UNCHANGED <<fetch_index, last_op_vars, npush, impl, probe, log>>

PushStep(t) ==
    \/ PushGet(t) \/ PushCheck(t) \/ PushStoreSlot(t) \/ PushStoreOffset(t)
    \/ PushIncLoad(t) \/ PushIncStore(t) \/ PushPublish(t) \/ PushPut(t)

\* faulty variant: reset_index advanced before the entry is read
ResetOrder_advance_first == <<"r_advance", "r_read_slot", "r_read_offset">>
\* next_slot = READ_ONCE(entry->slot); next_offset = READ_ONCE(entry->offset);
\* ring->reset_index++
ResetOrder == <<"r_read_slot", "r_read_offset", "r_advance">>

\* faulty variant: reset serialises with the pushers of vcpu 0's ring
ResetInnerLocks_push_locks == {"dirty_ring_lock", "lock0"}
\* the locks reset acquires itself: none
ResetInnerLocks == {}

\* the caller takes kvm->slots_lock and calls kvm_dirty_ring_reset on vcpu 0's ring
ResetCall ==
    /\ pc["reset"] = "idle"
    /\ locks["slots_lock"] = Free
    /\ locks' = [locks EXCEPT !["slots_lock"] = "reset"]
    /\ Goto("reset", "r_fetch")
    /\ KeepRings
    /\ UNCHANGED <<fetch_index, last_op_vars, npush, impl, probe, loc, log>>

\* the locals of a reset that enters its loop
ResetThreadLocals(fetch, first) ==
    [fetch |-> fetch, count |-> 0, e |-> kvm_dirty_ring_reset_index(reset_index),
     next_slot |-> 0, next_offset |-> 0, first |-> first, st |-> ResetLocals,
     from |-> Len(log) - RingUsed(Ring0), reads |-> << >>, calls |-> << >>, ret |-> 0]

\* fetch = READ_ONCE(fetch_index) and the early returns
ResetFetch ==
    /\ pc["reset"] = "r_fetch"
    /\ \A l \in ResetInnerLocks : locks[l] = Free
    /\ IF impl = "ring"
       THEN IF ResetRangeInvalid(fetch_index)
            THEN /\ loc' = [loc EXCEPT !["reset"] = [ret |-> -EINVAL]]
                 /\ Goto("reset", "r_unlock")
                 /\ UNCHANGED locks
            ELSE IF ResetNothingFetched(fetch_index)
            THEN /\ loc' = [loc EXCEPT !["reset"] = [ret |-> 0]]
                 /\ Goto("reset", "r_unlock")
                 /\ UNCHANGED locks
            ELSE /\ loc' = [loc EXCEPT !["reset"] = ResetThreadLocals(fetch_index, FALSE)]
                 /\ Goto("reset", "r_loop")
                 /\ locks' = [l \in Locks |-> IF l \in ResetInnerLocks THEN "reset"
                                               ELSE locks[l]]
       ELSE IF VcpuResetFetch = kvm_dirty_ring_reset_index(reset_index)
            THEN /\ loc' = [loc EXCEPT !["reset"] = [ret |-> 0]]
                 /\ Goto("reset", "r_unlock")
                 /\ UNCHANGED locks
            ELSE /\ loc' = [loc EXCEPT !["reset"] = ResetThreadLocals(VcpuResetFetch, TRUE)]
                 /\ Goto("reset", ResetOrder[1])
                 /\ locks' = [l \in Locks |-> IF l \in ResetInnerLocks THEN "reset"
                                               ELSE locks[l]]
    /\ KeepRings
    /\ UNCHANGED <<fetch_index, last_op_vars, npush, impl, probe, log>>

\* the loop condition, the final kvm_reset_dirty_gfn and the return
ResetWhile ==
    /\ pc["reset"] = "r_loop"
    /\ LET L == loc["reset"]
           done == IF impl = "ring" THEN reset_index = L.fetch
                   ELSE kvm_dirty_ring_reset_index(reset_index) = L.fetch
       IN IF done
          THEN /\ loc' = [loc EXCEPT !["reset"].ret = L.count,
                                     !["reset"].calls =
                                        Append(L.st.flushed,
                                               kvm_reset_dirty_gfn(L.st.cur_slot,
                                                                   L.st.cur_offset,
                                                                   L.st.mask))]
               /\ Goto("reset", "r_unlock")
          ELSE /\ loc' = [loc EXCEPT !["reset"].e = kvm_dirty_ring_reset_index(reset_index)]
               /\ Goto("reset", ResetOrder[1])
    /\ KeepRings
    /\ UNCHANGED <<fetch_index, last_op_vars, npush, impl, probe, locks, log>>

\* next_slot = READ_ONCE(entry->slot)
ResetReadSlot ==
    /\ pc["reset"] = "r_read_slot"
    /\ loc' = [loc EXCEPT !["reset"].next_slot = dirty_gfns[loc["reset"].e].slot]
    /\ Goto("reset", Following(ResetOrder, "r_read_slot", "r_merge"))
    /\ KeepRings
    /\ UNCHANGED <<fetch_index, last_op_vars, npush, impl, probe, locks, log>>

\* next_offset = READ_ONCE(entry->offset)
ResetReadOffset ==
    /\ pc["reset"] = "r_read_offset"
    /\ loc' = [loc EXCEPT !["reset"].next_offset = dirty_gfns[loc["reset"].e].offset]
    /\ Goto("reset", Following(ResetOrder, "r_read_offset", "r_merge"))
    /\ KeepRings
    /\ UNCHANGED <<fetch_index, last_op_vars, npush, impl, probe, locks, log>>

\* ring->reset_index++; count++
ResetAdvance ==
    /\ pc["reset"] = "r_advance"
    /\ reset_index' = U32(reset_index + 1)
    /\ loc' = [loc EXCEPT !["reset"].count = @ + 1]
    /\ Goto("reset", Following(ResetOrder, "r_advance", "r_merge"))
    /\ UNCHANGED <<dirty_index, size, soft_limit, dirty_gfns, avail_index, ring1>>
    /\ UNCHANGED <<fetch_index, last_op_vars, npush, impl, probe, locks, log>>

\* the rest of the loop body: merge the entry into the batch, or flush and reseed
ResetMerge ==
    /\ pc["reset"] = "r_merge"
    /\ LET L == loc["reset"]
           entry == Gfn(L.next_slot, L.next_offset)
           st == IF impl = "ring" THEN ResetIter(L.st, entry)
                 ELSE IF L.first THEN VcpuResetSeed(entry)
                 ELSE VcpuResetIter(L.st, entry)
       IN loc' = [loc EXCEPT !["reset"].st = st,
                             !["reset"].first = FALSE,
                             !["reset"].reads = Append(@, entry)]
    /\ Goto("reset", "r_loop")
    /\ KeepRings
    /\ UNCHANGED <<fetch_index, last_op_vars, npush, impl, probe, locks, log>>

\* the return to the caller, which releases kvm->slots_lock
ResetUnlock ==
    /\ pc["reset"] = "r_unlock"
    /\ locks' = [l \in Locks |-> IF locks[l] = "reset" THEN Free ELSE locks[l]]
    /\ loc' = [loc EXCEPT !["reset"] = [ret |-> loc["reset"].ret]]
    /\ Goto("reset", "idle")
    /\ KeepRings
    /\ UNCHANGED <<fetch_index, last_op_vars, npush, impl, probe, log>>

ResetStep ==
    \/ ResetFetch \/ ResetWhile \/ ResetReadSlot \/ ResetReadOffset
    \/ ResetAdvance \/ ResetMerge \/ ResetUnlock

\* userspace harvesting vcpu 0's ring: it reads avail_index, then the entries from its
\* cursor up to it, field by field, and writes its cursor to fetch_index
UserHasMore ==
    IF impl = "ring" THEN loc["user"].cursor # loc["user"].n
    ELSE BitAnd(loc["user"].cursor, size - 1) # loc["user"].n
UserFetch == IF impl = "ring" THEN loc["user"].cursor ELSE BitAnd(loc["user"].cursor, size - 1)

UserReadAvail ==
    /\ pc["user"] = "idle"
    /\ loc["user"].n # avail_index
    /\ loc' = [loc EXCEPT !["user"].n = avail_index]
    /\ KeepRings
    /\ UNCHANGED <<fetch_index, last_op_vars, npush, impl, probe, locks, pc, log>>

UserReadSlot ==
    /\ pc["user"] = "idle"
    /\ UserHasMore
    /\ loc' = [loc EXCEPT !["user"].slot =
                              dirty_gfns[BitAnd(loc["user"].cursor, size - 1)].slot]
    /\ Goto("user", "u_offset")
    /\ KeepRings
    /\ UNCHANGED <<fetch_index, last_op_vars, npush, impl, probe, locks, log>>

UserReadOffset ==
    /\ pc["user"] = "u_offset"
    /\ LET L == loc["user"] IN
          loc' = [loc EXCEPT
                    !["user"].seen =
                        <<L.cursor,
                          Gfn(L.slot, dirty_gfns[BitAnd(L.cursor, size - 1)].offset)>>,
                    !["user"].cursor = U32(L.cursor + 1)]
    /\ Goto("user", "idle")
    /\ KeepRings
    /\ UNCHANGED <<fetch_index, last_op_vars, npush, impl, probe, locks, log>>

UserWriteFetch ==
    /\ pc["user"] = "idle"
    /\ fetch_index # UserFetch
    /\ fetch_index' = UserFetch
    /\ KeepRings
    /\ UNCHANGED <<last_op_vars, npush, impl, probe, locks, pc, loc, log>>

UserStep == UserReadAvail \/ UserReadSlot \/ UserReadOffset \/ UserWriteFetch

\* userspace writes the published avail_index back as fetch_index, reading no entry
UserHarvest ==
    /\ fetch_index # avail_index
    /\ fetch_index' = avail_index
    /\ KeepRings
    /\ UNCHANGED <<last_op_vars, npush, impl, probe, locks, pc, loc, log>>

----------------------------------------------------------------------------
(* Specifications *)

\* Spec: any pushes, any fetch_index, any resets
Slots == {1, 2}
Offsets == {0}

Push ==
    /\ \E vcpu \in BOOLEAN, slot \in Slots, offset \in Offsets :
          kvm_dirty_ring_push(vcpu, slot, offset)
    /\ UNCHANGED <<npush, over, impl, probe, thread_vars>>

Fetch ==
    /\ \E v \in 0 .. IndexMod - 1 : WriteFetch(v)
    /\ UNCHANGED <<npush, over, impl, probe, thread_vars>>

Reset ==
    /\ kvm_dirty_ring_reset
    /\ UNCHANGED <<npush, over, impl, probe, thread_vars>>

Next == Push \/ Fetch \/ Reset

Spec == Init /\ [][Next]_vars

\* SpecCoalesce: the owning vcpu makes at most MaxBatch pushes of entries from a wider
\* alphabet; userspace harvests up to the published avail_index and resets
CoalesceSlots == {1, 2}
CoalesceOffsets == {0, 1, 2, 3, 5, 63, 64}

PushBatch ==
    /\ npush < MaxBatch
    /\ \E slot \in CoalesceSlots, offset \in CoalesceOffsets :
          kvm_dirty_ring_push(TRUE, slot, offset)
    /\ npush' = npush + 1
    /\ UNCHANGED <<over, impl, probe, thread_vars>>

Harvest ==
    /\ WriteFetch(avail_index)
    /\ UNCHANGED <<npush, over, impl, probe, thread_vars>>

NextCoalesce == PushBatch \/ Harvest \/ Reset

SpecCoalesce == Init /\ [][NextCoalesce]_vars

\* SpecProtocol: the back-pressure protocol.  Contexts without a vcpu push at will (the code
\* refuses them on a soft-full ring); the owning vcpu, once the ring is soft-full, makes at
\* most size - soft_limit further pushes until a reset leaves the ring below soft_limit.
\* Userspace writes any fetch_index.
ReservedEntries == U32(size - soft_limit + IndexMod)

PushNoVcpu ==
    /\ \E slot \in Slots, offset \in Offsets : kvm_dirty_ring_push(FALSE, slot, offset)
    /\ UNCHANGED <<npush, over, impl, probe, thread_vars>>

PushOwner ==
    /\ kvm_dirty_ring_soft_full => over < ReservedEntries
    /\ \E slot \in Slots, offset \in Offsets : kvm_dirty_ring_push(TRUE, slot, offset)
    /\ over' = IF kvm_dirty_ring_soft_full THEN over + 1 ELSE over
    /\ UNCHANGED <<npush, impl, probe, thread_vars>>

ResetDrain ==
    /\ kvm_dirty_ring_reset
    /\ over' = IF kvm_dirty_ring_soft_full' THEN over ELSE 0
    /\ UNCHANGED <<npush, impl, probe, thread_vars>>

NextProtocol == PushNoVcpu \/ PushOwner \/ Fetch \/ ResetDrain

SpecProtocol == Init /\ [][NextProtocol]_vars

\* SpecVcpu: the per-vcpu implementation.  At most MaxVcpuBatch pushes; userspace harvests
\* up to the published avail_index and resets.  Offsets 0 and IntMod
\* are further apart than an int can tell.
VcpuSlots == {1, 2}
VcpuOffsets == {0, 1, BITS_PER_LONG, IntMod}

VcpuPush ==
    /\ npush < MaxVcpuBatch
    /\ \E slot \in VcpuSlots, offset \in VcpuOffsets : kvm_dirty_ring_push_vcpu(slot, offset)
    /\ npush' = npush + 1
    /\ UNCHANGED <<over, impl, probe, thread_vars>>

VcpuReset ==
    /\ kvm_dirty_ring_reset_vcpu
    /\ UNCHANGED <<npush, over, impl, probe, thread_vars>>

NextVcpu == VcpuPush \/ Harvest \/ VcpuReset

SpecVcpu == InitImpl("vcpu") /\ [][NextVcpu]_vars

\* SpecThreads: either implementation, statement by statement: the three pushers make at
\* most MaxThreadPush pushes in all, one thread resets vcpu 0's ring and userspace harvests
\* it.  A vcpu's push is withheld while its ring is full.
ThreadSlots == {1, 2}

PushCalls ==
    \E t \in Pushers, slot \in ThreadSlots :
       /\ kvm_get_running_vcpu(t) # NoVcpu
             => RingUsed(RingOf(DefaultedVcpu(t))) < RingOf(DefaultedVcpu(t)).size
       /\ PushCall(t, slot)
PushSteps == \E t \in Pushers : PushStep(t)

NextThreads == PushCalls \/ PushSteps \/ ResetCall \/ ResetStep \/ UserStep

SpecThreads == (InitImpl("ring") \/ InitImpl("vcpu")) /\ [][NextThreads]_vars

\* SpecPushFair: the same pushers and resetter, no push withheld, every push of slot 1,
\* userspace writing fetch_index without reading entries.  Every pusher inside a push keeps running, and a
\* pusher that finds its lock free again and again gets it (the kernel's spinlocks are
\* fair); nothing is assumed of the resetter and of userspace.
PushCallsFair == \E t \in Pushers : PushCall(t, 1)

NextPushFair == PushCallsFair \/ PushSteps \/ ResetCall \/ ResetStep \/ UserHarvest

SpecPushFair ==
    /\ InitImpl("ring") \/ InitImpl("vcpu")
    /\ [][NextPushFair]_vars
    /\ \A t \in Pushers : SF_vars(PushStep(t))

\* SpecRetry: a context without a vcpu pushes and pushes again when refused; the owning vcpu
\* pushes while its ring is not full; userspace harvests up to the published avail_index
\* and resets.  The retried push, the harvest and the reset are each weakly fair; the
\* vcpu's pushes are not.  probe tells whether the last push without a vcpu was refused
\* (waiting), whether a vcpu pushed since that refusal (refilled) and whether the last
\* push without a vcpu succeeded after a refusal (served).
RetryBytes == {GfnBytes} \cup RingBytes
RetrySlots == {1}

InitRetry ==
    /\ InitThreads("ring")
    /\ \E bytes \in RetryBytes : kvm_dirty_ring_alloc(bytes)
    /\ ring1 = [dirty_index |-> 0, reset_index |-> 0, size |-> size,
                soft_limit |-> soft_limit, dirty_gfns |-> dirty_gfns, avail_index |-> 0]
    /\ InitHistory
    /\ probe = [kind |-> "retry", waiting |-> FALSE, refilled |-> FALSE, served |-> FALSE]

RetryPush ==
    /\ \E slot \in RetrySlots : kvm_dirty_ring_push(FALSE, slot, 0)
    /\ probe' = [probe EXCEPT !.waiting = (ret' = -EBUSY),
                              !.refilled = FALSE,
                              !.served = (probe.waiting /\ ret' = 0)]
    /\ UNCHANGED <<npush, over, impl, thread_vars>>

RetryVcpuPush ==
    /\ ~kvm_dirty_ring_full
    /\ \E slot \in RetrySlots : kvm_dirty_ring_push(TRUE, slot, 0)
    /\ probe' = [probe EXCEPT !.refilled = probe.waiting]
    /\ UNCHANGED <<npush, over, impl, thread_vars>>

NextRetry == RetryPush \/ RetryVcpuPush \/ Harvest \/ Reset

SpecRetry ==
    /\ InitRetry
    /\ [][NextRetry]_vars
    /\ WF_vars(RetryPush)
    /\ WF_vars(Harvest)
    /\ WF_vars(Reset)

\* SpecWrap: the ring-based implementation run through MaxLaps times the range of its
\* counters.  probe keeps the counts that do not wrap: the entries pushed (dirty), the
\* entries consumed (reset) and the count userspace means by the fetch_index it wrote
\* (fetch).  The vcpu pushes while its ring is not full; userspace writes the count of any
\* entry pushed and not consumed, or one more than size ahead of the entries consumed.
WrapSlots == {1, 2}
WrapUsed == probe.dirty - probe.reset

InitWrap ==
    /\ InitState("ring")
    /\ probe = [kind |-> "wrap", dirty |-> 0, reset |-> 0, fetch |-> 0]

WrapPush ==
    /\ probe.dirty < MaxLaps * IndexMod
    /\ \E vcpu \in BOOLEAN, slot \in WrapSlots :
          /\ vcpu => WrapUsed < size
          /\ kvm_dirty_ring_push(vcpu, slot, 0)
    /\ probe' = [probe EXCEPT !.dirty = IF ret' = 0 THEN @ + 1 ELSE @]
    /\ UNCHANGED <<npush, over, impl, thread_vars>>

WrapFetch ==
    /\ \E count \in (probe.reset .. probe.dirty) \cup {probe.reset + size + 1} :
          /\ WriteFetch(count % IndexMod)
          /\ probe' = [probe EXCEPT !.fetch = count]
    /\ UNCHANGED <<npush, over, impl, thread_vars>>

WrapReset ==
    /\ kvm_dirty_ring_reset
    /\ probe' = [probe EXCEPT !.reset = IF ret' > 0 THEN @ + ret' ELSE @]
    /\ UNCHANGED <<npush, over, impl, thread_vars>>

NextWrap == WrapPush \/ WrapFetch \/ WrapReset

SpecWrap == InitWrap /\ [][NextWrap]_vars

\* SpecGuard: one iteration of the ring-based reset loop applied on its own to a batch at
\* base GuardBase with any non-empty mask over GuardBits and a same-slot entry 1 to 63
\* pages below the base
GuardBits == {0, 1, 31, 32, 62, 63}
GuardBase == BITS_PER_LONG

InitGuard ==
    /\ InitState("ring")
    /\ \E mask \in (SUBSET GuardBits) \ {{}}, back \in 1 .. BITS_PER_LONG - 1 :
          probe = [kind |-> "guard",
                   st |-> [first_round |-> FALSE, cur_slot |-> 1, cur_offset |-> GuardBase,
                           mask |-> mask, flushed |-> << >>],
                   entry |-> Gfn(1, GuardBase - back),
                   done |-> FALSE,
                   out |-> ResetLocals]

GuardIter ==
    /\ probe.kind = "guard"
    /\ ~probe.done
    /\ probe' = [probe EXCEPT !.done = TRUE, !.out = ResetIter(probe.st, probe.entry)]
    /\ UNCHANGED <<ring_vars, indices_vars, last_op_vars, npush, impl, thread_vars>>

NextGuard == GuardIter

SpecGuard == InitGuard /\ [][NextGuard]_vars

\* SpecAlloc: kvm_dirty_ring_alloc as a step, applied to a ring structure with any content
\* in its counters, for every capacity of 1 to IndexMod - 1 entries, vmalloc succeeding or
\* failing, and every extra reservation of CpuDirtyLogSizes
\* kvm_cpu_dirty_log_size() is __weak: what an architecture's own definition returns
CpuDirtyLogSizes == {0, 1, 2}
AllocBytes == {n * GfnBytes : n \in 1 .. IndexMod - 1}

InitAlloc ==
    /\ InitThreads("ring")
    /\ dirty_index \in 0 .. IndexMod - 1
    /\ reset_index \in {0, IndexMod - 1}
    /\ size = 0
    /\ soft_limit = 0
    /\ dirty_gfns = << >>
    /\ fetch_index = 0
    /\ avail_index = 0
    /\ ring1 = [dirty_index |-> 0, reset_index |-> 0, size |-> 0,
                soft_limit |-> 0, dirty_gfns |-> << >>, avail_index |-> 0]
    /\ InitHistory
    /\ \E bytes \in AllocBytes, log_size \in CpuDirtyLogSizes, vmalloc \in BOOLEAN :
          probe = [kind |-> "alloc", bytes |-> bytes, log_size |-> log_size,
                   vmalloc |-> vmalloc, done |-> FALSE]

Alloc ==
    /\ probe.kind = "alloc"
    /\ ~probe.done
    /\ probe' = [probe EXCEPT !.done = TRUE]
    /\ op' = "alloc"
    /\ IF ~probe.vmalloc
       THEN /\ ret' = 0 - ENOMEM
            /\ UNCHANGED ring_vars
       ELSE LET n == probe.bytes \div GfnBytes IN
            /\ dirty_gfns' = [i \in 0 .. n - 1 |-> Gfn(0, 0)]
            /\ size' = n
            /\ soft_limit' = U32(n - (KVM_DIRTY_RING_RSVD_ENTRIES + probe.log_size)
                                   + IndexMod)
            /\ dirty_index' = 0
            /\ reset_index' = 0
            /\ ret' = 0
    /\ UNCHANGED <<indices_vars, arg, calls, walk, warned, run, ahead, kept, fifo, reads,
                   over, npush, impl, thread_vars>>

NextAlloc == Alloc

SpecAlloc == InitAlloc /\ [][NextAlloc]_vars

----------------------------------------------------------------------------
(* What the claims speak of *)

\* the entry stored for index i: entries[i mod size]
EntryAt(i) == dirty_gfns[i % size]

\* the pages a clear_dirty call names: bit i of the mask is page base + i
PagesOfCall(c) == {<<c.slot, c.offset + i>> : i \in c.mask}
PagesNamed(cs) == UNION {PagesOfCall(cs[j]) : j \in 1 .. Len(cs)}

\* the physical slots that hold an entry with index in [reset_index, dirty_index)
LiveSlots ==
    IF ahead = Lost THEN {}
    ELSE {U32(reset_index + k) % size : k \in 0 .. ahead - 1}

\* before a reset: reset_index <= fetch_index <= dirty_index, and the entries in between
FetchDistance == U32(fetch_index - reset_index + IndexMod)
FetchInRange == ahead # Lost /\ FetchDistance <= ahead
RangePages ==
    {<<EntryAt(U32(reset_index + k)).slot, EntryAt(U32(reset_index + k)).offset>> :
        k \in 0 .. FetchDistance - 1}

\* after a reset that consumed entries: the entries it read, in order
ResetRan == op = "reset" /\ ret > 0
Consumed == [k \in 1 .. ret |-> EntryAt(U32(reset_index - ret + IndexMod + k - 1))]

----------------------------------------------------------------------------
(* Claims *)

\* C1 (as claimed): in every reachable state reset_index <= dirty_index <= reset_index + size,
\* the counters read as free-running counts.
C1_IndexInvariant == ahead # Lost /\ 0 <= ahead /\ ahead <= size

\* C2 (as claimed): a push that returns 0 never writes into a physical slot that holds an
\* entry with index in [reset_index, dirty_index).
C2_NoEntryLost ==
    [][(op' = "push" /\ ret' = 0) => (dirty_index % size) \notin LiveSlots]_vars

\* C3 (as claimed): a reset whose fetch_index lies between reset_index and dirty_index names,
\* over all its clear_dirty calls, exactly the pages of the entries stored at indices
\* reset_index .. fetch_index - 1.
C3_ResetNamesRange ==
    [][(op' = "reset" /\ FetchInRange) => PagesNamed(calls') = RangePages]_vars

\* C3, where the ring holds at most size unconsumed entries: holds (not the claim's formula)
ResetNamesRangeUnlessOverfull ==
    [][(op' = "reset" /\ FetchInRange /\ ahead <= size) => PagesNamed(calls') = RangePages]_vars

\* C4: after n <= soft_limit successful pushes on a ring that was empty (reset_index =
\* dirty_index), a reset with fetch_index = dirty_index returns n and leaves
\* reset_index = dirty_index.
C4_ResetReturnsPushed ==
    [][(op' = "reset" /\ run # Lost /\ run <= soft_limit /\ fetch_index = dirty_index)
         => (ret' = run /\ reset_index' = dirty_index')]_vars

\* C4's case: a reset has just consumed soft_limit > 1 entries and emptied the ring
C4_Witness ==
    /\ op = "reset"
    /\ ret = soft_limit
    /\ ret > 1
    /\ run = 0
    /\ reset_index = dirty_index

\* C5: a reset whose fetch_index is more than size ahead of reset_index (modulo 2^32)
\* returns -EINVAL, makes no clear_dirty call and changes neither the indices nor the entries.
C5_InvalidRangeRefused ==
    [][(op' = "reset" /\ U32(fetch_index - reset_index + IndexMod) > size)
         => /\ ret' = -EINVAL
            /\ calls' = << >>
            /\ UNCHANGED <<reset_index, dirty_index, avail_index, dirty_gfns>>]_vars

\* C5's case: a reset has just refused a fetch_index beyond size while entries were pending
C5_Witness ==
    /\ op = "reset"
    /\ ret = -EINVAL
    /\ U32(fetch_index - reset_index + IndexMod) > size
    /\ ahead > 0

\* C6: push returns -EBUSY exactly when there is no vcpu context and used >= soft_limit, and
\* then changes nothing; otherwise, with used < size, it returns 0, stores the entry at
\* dirty_index mod size and increments dirty_index.
C6_PushBusyOrStored ==
    [][op' = "push" =>
         LET used == U32(dirty_index - reset_index + IndexMod)
             busy == ~arg'.vcpu /\ used >= soft_limit
         IN /\ (ret' = -EBUSY) <=> busy
            /\ busy => UNCHANGED <<dirty_gfns, dirty_index, avail_index>>
            /\ (~busy /\ used < size) =>
                 /\ ret' = 0
                 /\ dirty_gfns' = [dirty_gfns EXCEPT
                                     ![dirty_index % size] = Gfn(arg'.slot, arg'.offset)]
                 /\ dirty_index' = U32(dirty_index + 1)]_vars

\* C6's case: a push without vcpu context has just returned -EBUSY on a soft-full ring
C6_Witness ==
    /\ op = "push"
    /\ ~arg.vcpu
    /\ ret = -EBUSY
    /\ ahead >= soft_limit
    /\ ahead < size

\* C7 (as claimed): a reset over entries of one slot whose offsets all lie in
\* [first_offset, first_offset + BITS_PER_LONG) makes exactly one clear_dirty call,
\* (slot, first_offset, the bits offset - first_offset).
SameSlotWindow ==
    \A k \in 1 .. ret :
        /\ Consumed[k].slot = Consumed[1].slot
        /\ Consumed[k].offset >= Consumed[1].offset
        /\ Consumed[k].offset < Consumed[1].offset + BITS_PER_LONG
WindowCall ==
    kvm_reset_dirty_gfn(Consumed[1].slot, Consumed[1].offset,
                        {Consumed[k].offset - Consumed[1].offset : k \in 1 .. ret})
C7_OneCallPerWindow == (ResetRan /\ SameSlotWindow) => calls = <<WindowCall>>

\* C7, but for the call made before the first batch: holds (not the claim's formula)
OneCallPerWindowAfterFirst ==
    (ResetRan /\ SameSlotWindow) => calls = <<kvm_reset_dirty_gfn(0, 0, {}), WindowCall>>

\* walk[i] are the locals before the i-th entry is merged, walk[i + 1] after
BackwardCase(i) ==
    LET st == walk[i]
        d == st.cur_offset - Consumed[i].offset
    IN /\ ~st.first_round
       /\ Consumed[i].slot = st.cur_slot
       /\ d > 0
       /\ d < BITS_PER_LONG
       /\ \A b \in st.mask : b + d < BITS_PER_LONG
BackwardMerged(i) ==
    LET st == walk[i]
        d == st.cur_offset - Consumed[i].offset
    IN walk[i + 1] = [st EXCEPT !.cur_offset = Consumed[i].offset,
                                !.mask = {b + d : b \in st.mask} \cup {0}]

C9_SlotChangeFlushes ==
    ResetRan =>
      /\ \A i \in 2 .. ret :
           Consumed[i].slot # walk[i].cur_slot =>
             walk[i + 1] =
               [first_round |-> FALSE,
                cur_slot |-> Consumed[i].slot,
                cur_offset |-> Consumed[i].offset,
                mask |-> {0},
                flushed |-> Append(walk[i].flushed,
                                   kvm_reset_dirty_gfn(walk[i].cur_slot, walk[i].cur_offset,
                                                       walk[i].mask))]
      /\ Consumed = <<Gfn(1, 0), Gfn(2, 0)>> =>
           calls = <<kvm_reset_dirty_gfn(1, 0, {0}), kvm_reset_dirty_gfn(2, 0, {0})>>

\* C10: after a successful reset, a second reset with fetch_index not written in between
\* returns 0, makes no clear_dirty call and changes no ring state.
C10_ResetIdempotent ==
    [][(op' = "reset" /\ kept >= 1)
         => /\ ret' = 0
            /\ calls' = << >>
            /\ UNCHANGED <<ring_vars, indices_vars>>]_vars

\* C10's case: the second reset has run, on a ring that holds entries pushed after the first
C10_Witness ==
    /\ op = "reset"
    /\ kept = 2
    /\ ret = 0
    /\ ahead > 0

----------------------------------------------------------------------------
\* C11: while the ring never held more than size unconsumed entries, the k-th successful
\* push stores its entry at entries[k mod size], and a reset whose fetch_index does not pass
\* dirty_index reads exactly the oldest unconsumed entries, in the order they were pushed
C11_FifoOrder ==
    [][/\ (op' = "push" /\ ret' = 0 /\ fifo.ok /\ Len(fifo.q) < size)
           => dirty_gfns'[fifo.k] = Gfn(arg'.slot, arg'.offset)
       /\ (op' = "reset" /\ fifo.ok /\ FetchDistance <= Len(fifo.q))
           => /\ ret' = FetchDistance
              /\ reads' = SubSeq(fifo.q, 1, FetchDistance)
              /\ fifo'.q = SubSeq(fifo.q, FetchDistance + 1, Len(fifo.q))]_vars

\* a reset read two different entries in push order after dirty_index passed the ring's end
C11_Witness ==
    /\ op = "reset"
    /\ fifo.ok
    /\ reads = <<Gfn(1, 0), Gfn(2, 0)>>
    /\ reset_index > size

----------------------------------------------------------------------------
\* C16: a push changes only the entry at dirty_index mod size, dirty_index and avail_index;
\* a reset changes only reset_index; each index advances (modulo the counter width) by
\* exactly one per entry pushed or consumed
C16_SingleWriter ==
    [][/\ op' = "push"
           => /\ UNCHANGED <<reset_index, fetch_index, size, soft_limit>>
              /\ IF ret' = 0
                 THEN /\ dirty_index' = U32(dirty_index + 1)
                      /\ \A i \in 0 .. size - 1 :
                            i # dirty_index % size => dirty_gfns'[i] = dirty_gfns[i]
                 ELSE UNCHANGED <<dirty_index, avail_index, dirty_gfns>>
       /\ op' = "reset"
           => /\ UNCHANGED <<dirty_index, avail_index, fetch_index, size, soft_limit,
                             dirty_gfns>>
              /\ reset_index' = U32(reset_index + Len(reads'))
              /\ Len(reads') = IF ret' > 0 THEN ret' ELSE 0]_vars

\* a push stored an entry while dirty_index wrapped around to 0
C16_Witness ==
    /\ op = "push"
    /\ ret = 0
    /\ dirty_index = 0
    /\ reset_index = IndexMod - 1
    /\ dirty_gfns[(IndexMod - 1) % size] = Gfn(arg.slot, arg.offset)

----------------------------------------------------------------------------
\* C17: under the back-pressure protocol the ring is never full at the entry of a push:
\* WARN_ON_ONCE(kvm_dirty_ring_full(ring)) never fires
C17_NeverWarned == ~(op = "push" /\ warned)

\* the assertion fires only after a reset consumed entries that were never pushed
WarnedOnlyAfterResetPastDirty == [][(op' = "push" /\ warned') => ~fifo.ok]_vars

----------------------------------------------------------------------------
\* C19: per-vcpu implementation: after k successful pushes on an empty ring, 0 <= k <= size,
\* a reset with fetch_index = the published avail_index returns k and leaves
\* reset_index = dirty_index
C19_HarvestConsumesAll ==
    [][(op' = "reset" /\ run # Lost /\ fetch_index = avail_index)
       => (ret' = run /\ reset_index' = dirty_index')]_vars

\* the same for every fill level below size
HarvestConsumesAllBelowFull ==
    [][(op' = "reset" /\ run # Lost /\ run < size /\ fetch_index = avail_index)
       => (ret' = run /\ reset_index' = dirty_index')]_vars

----------------------------------------------------------------------------
\* C20: in a reset, a same-slot entry whose offset is word_bits or more away from the base of
\* the accumulated batch in either direction (as a 64-bit signed difference), or whose
\* backward merge would shift a set bit out of the mask, is never merged: the batch is
\* flushed and a new one seeded with the entry and mask 1

\* the state of the locals before (Before) and after (After) the j-th entry read was handled;
\* the per-vcpu reset seeds its batch with the first entry before its loop
FirstLooped == Len(reads) - Len(walk) + 2
Before(j) == walk[j - FirstLooped + 1]
After(j) == walk[j - FirstLooped + 2]

OutOfWindow(st, entry) ==
    LET delta == S64(U64(entry.offset - st.cur_offset + OffsetMod)) IN
       \/ delta >= BITS_PER_LONG
       \/ delta <= -BITS_PER_LONG
       \/ /\ delta < 0
          /\ \E b \in st.mask : b - delta >= BITS_PER_LONG

FlushedAndReseeded(st, entry, after) ==
    /\ after.cur_slot = entry.slot
    /\ after.cur_offset = entry.offset
    /\ after.mask = {0}
    /\ after.flushed = Append(st.flushed,
                              kvm_reset_dirty_gfn(st.cur_slot, st.cur_offset, st.mask))

C20_OutOfWindowFlushes ==
    ResetRan =>
       \A j \in FirstLooped .. Len(reads) :
          (/\ Before(j).mask # {}
           /\ reads[j].slot = Before(j).cur_slot
           /\ OutOfWindow(Before(j), reads[j]))
          => FlushedAndReseeded(Before(j), reads[j], After(j))

----------------------------------------------------------------------------
(* Claims about the threads of SpecThreads *)

\* the running indexes of the entries of vcpu 0's ring that are pushed and not consumed
Unconsumed == {i \in 0 .. Len(log) - 1 : Len(log) - i <= RingUsed(Ring0)}
InPush(t) == pc[t] \notin {"idle", "get"}

----------------------------------------------------------------------------
\* C13: ring-based implementation: a caller that got vcpu 0's ring (vcpu 0 or a context
\* without a vcpu) holds kvm->dirty_ring_lock until its put, so at most one of them is
\* between get and put and no update of dirty_index is lost; vcpu 1 takes no lock
C13_DefaultRingLocked ==
    impl = "ring" =>
       /\ DefaultedVcpu("vcpu0") = 0 /\ DefaultedVcpu("none") = 0 /\ DefaultedVcpu("vcpu1") = 1
       /\ \A t \in {"vcpu0", "none"} : InPush(t) => locks["dirty_ring_lock"] = t
       /\ Cardinality({t \in {"vcpu0", "none"} : InPush(t)}) <= 1
       /\ dirty_index = U32(Len(log))
       /\ \A l \in Locks : locks[l] # "vcpu1"

\* the context without a vcpu is writing its entry, vcpu 0 waits in kvm_dirty_ring_get and
\* vcpu 1 is writing to its own ring
C13_Witness ==
    /\ impl = "ring"
    /\ pc["none"] = "store_slot"
    /\ pc["vcpu0"] = "get"
    /\ pc["vcpu1"] = "store_slot"

----------------------------------------------------------------------------
\* C14: every push, once called, returns (0, the soft-full indicator or -EBUSY) whatever
\* the resetter and userspace do or fail to do
C14_PushReturns ==
    /\ [](\A t \in Pushers : pc[t] = "idle" => loc[t].ret \in {0, 1, -EBUSY})
    /\ \A t \in Pushers : (pc[t] = "get") ~> (pc[t] = "idle")

\* a push is at its capacity check on a full ring that nobody is resetting and of which
\* userspace has released no entry
C14_Witness ==
    /\ pc["vcpu0"] = "check"
    /\ RingUsed(Ring0) >= size
    /\ pc["reset"] = "idle"
    /\ fetch_index = reset_index

----------------------------------------------------------------------------
\* C15: reset holds no lock of a push path, and no thread waits for a lock whose holder
\* is itself waiting or has left without releasing it

\* the locks thread t is waiting for
WaitsFor(t) ==
    IF t \in Pushers
    THEN {l \in Locks : pc[t] = "get" /\ l = PushLock(t) /\ locks[l] # Free}
    ELSE {l \in ResetInnerLocks : t = "reset" /\ pc[t] = "r_fetch" /\ locks[l] # Free}
Runs(t) == pc[t] # "idle" /\ WaitsFor(t) = {}

C15_NoDeadlock ==
    /\ \A l \in Locks \ {"slots_lock"} : locks[l] # "reset"
    /\ \A t \in Threads : \A l \in WaitsFor(t) : Runs(locks[l])

\* reset is inside its loop while vcpu 0 writes an entry under its lock and the context
\* without a vcpu waits for that lock
C15_Witness ==
    /\ pc["reset"] = "r_read_offset"
    /\ locks["slots_lock"] = "reset"
    /\ pc["vcpu0"] = "store_slot"
    /\ pc["none"] = "get"
    /\ WaitsFor("none") # {}

----------------------------------------------------------------------------
\* C18: reset_index advances by one, only in reset and only after reset has read the slot
\* and offset pushed for that entry; no push writes the slot of an unconsumed entry; the
\* entries a reset has handled are the ones pushed at their indexes
C18_ResetStepwise ==
    [][/\ reset_index' # reset_index
           => /\ reset_index' = U32(reset_index + 1)
              /\ pc["reset"] = "r_advance"
              /\ Len(log) - RingUsed(Ring0) + 1 \in 1 .. Len(log)
              /\ Gfn(loc["reset"].next_slot, loc["reset"].next_offset)
                    = log[Len(log) - RingUsed(Ring0) + 1]
       /\ dirty_gfns' # dirty_gfns
           => \A i \in Unconsumed : dirty_gfns'[i % size] = dirty_gfns[i % size]
       /\ pc'["reset"] \notin {"idle", "r_fetch", "r_unlock"}
           => \A j \in 1 .. Len(loc'["reset"].reads) :
                 loc'["reset"].reads[j] = log'[loc'["reset"].from + j]]_vars

\* on a full ring of two entries reset has consumed the first entry and is reading the
\* second while vcpu 0 writes a third
C18_Witness ==
    /\ size = 2
    /\ Len(log) = 2
    /\ pc["reset"] = "r_read_offset"
    /\ loc["reset"].count = 1
    /\ pc["vcpu0"] = "store_offset"

----------------------------------------------------------------------------
\* C21: for a non-empty mask and a same-slot entry less than word_bits pages below the base,
\* the backward merge is taken exactly when the highest set bit of the mask plus the
\* distance is below word_bits; the merged call then names the pages of the old batch and
\* the page of the entry, no other

HighestBit(mask) == CHOOSE b \in mask : \A c \in mask : c <= b
CallOf(st) == kvm_reset_dirty_gfn(st.cur_slot, st.cur_offset, st.mask)
GuardMerged == probe.out.flushed = << >>

C21_GuardEquivalence ==
    (probe.kind = "guard" /\ probe.done) =>
       LET back == probe.st.cur_offset - probe.entry.offset IN
          /\ GuardMerged <=> HighestBit(probe.st.mask) + back < BITS_PER_LONG
          /\ GuardMerged =>
                /\ probe.out.cur_offset = probe.entry.offset
                /\ 0 \in probe.out.mask
                /\ PagesOfCall(CallOf(probe.out))
                      = PagesOfCall(CallOf(probe.st))
                           \cup {<<probe.entry.slot, probe.entry.offset>>}

\* a merge whose shift moves the highest bit of the mask to bit 63
C21_Witness ==
    /\ probe.kind = "guard"
    /\ probe.done
    /\ probe.st.mask = {0, 62}
    /\ probe.entry.offset = GuardBase - 1
    /\ probe.out.mask = {0, 1, 63}

----------------------------------------------------------------------------
\* C22: a successful kvm_dirty_ring_alloc of a capacity that is a positive multiple of the
\* entry size leaves size = capacity / entry size, soft_limit = size - reserved entries with
\* 0 <= soft_limit < size (no unsigned wrap-around), both counters 0 and every entry zero;
\* when the memory cannot be had it returns -ENOMEM

Allocated == probe.kind = "alloc" /\ probe.done
AllocReserved == KVM_DIRTY_RING_RSVD_ENTRIES + probe.log_size
AllocCounters ==
    /\ size = probe.bytes \div GfnBytes
    /\ size * GfnBytes = probe.bytes
    /\ dirty_index = 0
    /\ reset_index = 0
    /\ DOMAIN dirty_gfns = 0 .. size - 1
    /\ \A i \in DOMAIN dirty_gfns : dirty_gfns[i] = Gfn(0, 0)

C22_AllocResult ==
    Allocated =>
       /\ ~probe.vmalloc <=> ret = 0 - ENOMEM
       /\ probe.vmalloc =>
             /\ ret = 0
             /\ AllocCounters
             /\ soft_limit = size - AllocReserved
             /\ 0 <= soft_limit
             /\ soft_limit < size

\* what holds of every allocation: the counters, and the soft limit when the capacity is
\* no smaller than the reservation
AllocWithinCapacity ==
    Allocated =>
       /\ ~probe.vmalloc <=> ret = 0 - ENOMEM
       /\ probe.vmalloc =>
             /\ ret = 0
             /\ AllocCounters
             /\ soft_limit = U32(size - AllocReserved + IndexMod)
             /\ size >= AllocReserved <=> soft_limit < size

----------------------------------------------------------------------------
\* C23: a context without a vcpu that keeps retrying a refused push, while userspace keeps
\* harvesting and resetting, is eventually served: Busy leads to Ok

BusyTransientAboveZero == (probe.waiting /\ soft_limit > 0) ~> ~probe.waiting

----------------------------------------------------------------------------
\* C24: the ring-based avail_index is a running count: after every operation it equals
\* dirty_index; and reset reads fetch_index as a running count too: it measures it against
\* reset_index as it stands, refuses it when more than size ahead, and otherwise consumes
\* that many entries and leaves reset_index equal to fetch_index

C24_RunningCount ==
    [][/\ avail_index' = dirty_index'
       /\ op' = "reset" =>
             LET ahead_by == U32(fetch_index - reset_index + IndexMod) IN
             /\ ret' = -EINVAL <=> ahead_by > size
             /\ ahead_by <= size => /\ ret' = ahead_by
                                    /\ reset_index' = fetch_index]_vars

\* a full ring harvested and reset with both counters beyond the positions of
\* the ring
C24_Witness ==
    /\ impl = "ring"
    /\ op = "reset"
    /\ ret = size
    /\ avail_index = dirty_index
    /\ reset_index = dirty_index
    /\ dirty_index > size
    /\ BitAnd(dirty_index, size - 1) # 0

----------------------------------------------------------------------------
\* C25: with size a power of two, the counters of the ring-based implementation, wrapped or
\* not, give what counts that never wrap would give: the used count, the soft-full and full
\* tests, the range check of reset and the positions of the entries written and read; push
\* and reset return and do the same before and after the wrap

WrapAgrees ==
    /\ dirty_index = probe.dirty % IndexMod
    /\ reset_index = probe.reset % IndexMod
    /\ fetch_index = probe.fetch % IndexMod
    /\ kvm_dirty_ring_used = WrapUsed
    /\ kvm_dirty_ring_soft_full <=> WrapUsed >= soft_limit
    /\ kvm_dirty_ring_full <=> WrapUsed >= size
    /\ ResetRangeInvalid(fetch_index) <=> probe.fetch - probe.reset > size
    /\ ResetNothingFetched(fetch_index) <=> probe.fetch = probe.reset
    /\ PushEntry = probe.dirty % size
    /\ ResetEntry(reset_index) = dirty_gfns[probe.reset % size]

WrapPushAgrees ==
    op' = "push" =>
       IF ~arg'.vcpu /\ WrapUsed >= soft_limit
       THEN ret' = -EBUSY /\ UNCHANGED <<ring_vars, indices_vars>>
       ELSE /\ ret' = 0
            /\ dirty_gfns' = [dirty_gfns EXCEPT ![probe.dirty % size] =
                                                    Gfn(arg'.slot, arg'.offset)]
            /\ dirty_index' = (probe.dirty + 1) % IndexMod
            /\ avail_index' = (probe.dirty + 1) % IndexMod

WrapResetAgrees ==
    op' = "reset" =>
       LET n == probe.fetch - probe.reset IN
       IF n > size
       THEN ret' = -EINVAL /\ UNCHANGED <<ring_vars, indices_vars>>
       ELSE /\ ret' = n
            /\ reset_index' = probe.fetch % IndexMod
            /\ reads' = [k \in 1 .. n |-> dirty_gfns[(probe.reset + k - 1) % size]]

----------------------------------------------------------------------------
\* C26: every kvm_reset_dirty_gfn call of a reset has bit 0 of its mask set and the slot and
\* offset of an entry consumed in that reset as its slot and base, so it names a consumed
\* page; no call has an empty mask or a slot and offset not read from the consumed range

NamesConsumed(call) ==
    /\ 0 \in call.mask
    /\ \E k \in 1 .. ret : /\ Consumed[k].slot = call.slot
                           /\ Consumed[k].offset = call.offset

C26_CallsNameConsumed ==
    ResetRan => \A i \in 1 .. Len(calls) : NamesConsumed(calls[i])

\* what holds of the ring-based reset: every call but its first names a consumed page
CallsNameConsumedAfterFirst ==
    ResetRan => \A i \in 2 .. Len(calls) : NamesConsumed(calls[i])

----------------------------------------------------------------------------
\* C27: the per-vcpu push returns -EBUSY and leaves the ring as it is exactly when the used
\* count dirty_index - reset_index equals size; otherwise it stores the entry and returns 1
\* if the used count after the push is at least soft_limit, else 0; for every power-of-two
\* size, those whose used count does not fit the 16-bit local included

VcpuPushResult ==
    op' = "push" =>
       IF kvm_dirty_ring_used = size
       THEN /\ ret' = -EBUSY
            /\ UNCHANGED <<ring_vars, indices_vars>>
       ELSE /\ dirty_gfns' = [dirty_gfns EXCEPT ![PushEntry] = Gfn(arg'.slot, arg'.offset)]
            /\ dirty_index' = U32(dirty_index + 1)
            /\ ret' = IF kvm_dirty_ring_used + 1 >= soft_limit THEN 1 ELSE 0

C27_VcpuPushResult == [][VcpuPushResult]_vars

\* what holds: the same of every ring whose size fits the 16-bit local
VcpuPushResultFits == [][size < Pow2(U16Bits) => VcpuPushResult]_vars

====
